---- MODULE Spec2Model ----
(***************************************************************************)
(* Restaurant AI service: the /process handler of main.py, the             *)
(* RestaurantAIAgent it builds per restaurant (bounded tool-calling loop   *)
(* with a sliding window of conversation turns), and the response          *)
(* generator's template selection.                                         *)
(*                                                                         *)
(* The agent loop, the window memory and the single-input Tool wrapper are *)
(* supplied by the agent framework; they are modelled by the behaviour the *)
(* framework gives the configuration written in restaurant_agent.py.      *)
(***************************************************************************)
EXTENDS Integers, Sequences, FiniteSets, TLC

VARIABLES
    klass,      \* names of the methods class RestaurantAIAgent defines
    rows,       \* restaurants table: the ids that have a row
    agents,     \* app.state.agents: restaurant id -> instance (0: no entry)
    inst,       \* every RestaurantAIAgent ever constructed, by identity
    cache,      \* redis: key -> entry, NoEntry when absent or expired
    log,        \* conversations table: (restaurant, customer, channel) -> messages
    req,        \* in-flight /process requests, each with its position and locals
    served,     \* number of /process requests received so far
    last,       \* the HTTP response returned most recently
    run,        \* the AgentExecutor call in progress (synchronous: at most one)
    trace,      \* what the current AgentExecutor call did so far, in order
    completed,  \* history: per instance, the turns of its completed invocations
    gen,        \* one call of RestaurantResponseGenerator.generate_response
    health      \* GET /health: the call in progress and the reports returned

vars == <<klass, rows, agents, inst, cache, log, req, served, last, run, trace,
          completed, gen, health>>

(***************************************************************************)
(* Program constants                                                       *)
(***************************************************************************)
\* restaurant_agent.py:105  max_iterations=5
MaxIterations == 5
\* restaurant_agent.py:21   ConversationBufferWindowMemory(k=10)
K == 10
\* main.py:109              setex(cache_key, 3600, ...)
CacheTTL == 3600

(***************************************************************************)
(* Bounds of the model                                                     *)
(***************************************************************************)
\* direct invocations of one agent in SpecAgent
MaxInvocations == 2
\* invocations of one agent in SpecMemory (more than K, so the window slides)
MaxTurns == 12
\* /process requests received in SpecService and Spec
MaxRequests == 2
MaxChecks == 2

None == "none"

(***************************************************************************)
(* RestaurantAIAgent: the class, its tools                                 *)
(***************************************************************************)
\* The six Tool(name=...) entries of _create_tools.
ToolNames ==
    {"check_availability", "get_menu_info", "make_reservation",
     "check_hours", "process_order", "get_wait_time"}

\* Tool(name=n, func=self.<f>): the method each entry binds.
ToolFunc(n) == n

\* The methods the class body defines.
ClassMethods ==
    {"__init__", "_create_tools", "_create_agent", "check_availability",
     "get_menu_info", "make_reservation", "process_order",
     "_is_slot_available", "_calculate_prep_time"}

\* The two lookups the specification lists and the class does not define.
SpecStubs == {"check_hours", "get_wait_time"}

\* _create_tools evaluates self.<func> for every entry while building the
\* list: a missing attribute raises AttributeError and no list is returned.
CreateTools(k) ==
    IF \A n \in ToolNames : ToolFunc(n) \in k
    THEN [ok |-> TRUE, tools |-> ToolNames]
    ELSE [ok |-> FALSE, tools |-> {}]

Ok(o) == [raised |-> FALSE, obs |-> o]
Raise(e) == [raised |-> TRUE, obs |-> e]

\* check_availability: fromisoformat raises on a malformed date_time;
\* otherwise the (random) slots give some available time or none.
check_availability(arg) ==
    IF arg = "bad" THEN {Raise("ValueError")}
    ELSE {Ok("available_times"), Ok("no_availability")}

\* get_menu_info: the matching items, or the fallback sentence.
get_menu_info(arg) ==
    IF arg = "match" THEN {Ok("menu_items")} ELSE {Ok("no_menu_match")}

\* make_reservation: reads customer_info['name'], ['phone'], ...
make_reservation(arg) ==
    IF arg = "bad" THEN {Raise("KeyError")} ELSE {Ok("reservation_confirmed")}

\* _calculate_prep_time: base_time + len(items) * 3
calculate_prep_time(nItems) == 15 + nItems * 3

\* process_order: reads order_details['items'], sums, estimates prep time.
process_order(arg) ==
    IF arg = "bad" THEN {Raise("KeyError")}
    ELSE {Ok(<<"order_confirmed", calculate_prep_time(1)>>)}

\* hours lookup, wait-time lookup: in the specification only.
check_hours(arg) == {Ok("hours")}
get_wait_time(arg) == {Ok("wait_time")}

\* The outcomes of running the tool bound under name n on input arg.
ToolOutcomes(n, arg) ==
    CASE n = "check_availability" -> check_availability(arg)
      [] n = "get_menu_info" -> get_menu_info(arg)
      [] n = "make_reservation" -> make_reservation(arg)
      [] n = "process_order" -> process_order(arg)
      [] n = "check_hours" -> check_hours(arg)
      [] n = "get_wait_time" -> get_wait_time(arg)

\* AgentExecutor: a name outside the tool list runs no tool; the model is
\* told the name is invalid.
InvalidTool(n) == Ok(<<"invalid_tool", n>>)

(***************************************************************************)
(* Memory: ConversationBufferWindowMemory(k=10, return_messages=True)      *)
(***************************************************************************)
Human(m) == [role |-> "human", content |-> m]
AI(a) == [role |-> "ai", content |-> a]

LastN(s, n) ==
    IF Len(s) <= n THEN s ELSE SubSeq(s, Len(s) - n + 1, Len(s))

\* A window that keeps the oldest messages instead of the newest.
LoadMemoryOldest(buffer) ==
    IF Len(buffer) <= 2 * K THEN buffer ELSE SubSeq(buffer, 1, 2 * K)

\* load_memory_variables: buffer[-k*2:]
LoadMemory(buffer) == LastN(buffer, 2 * K)

\* save_context: the input and the output are appended as two messages.
SaveContext(buffer, input, output) ==
    buffer \o <<Human(input), AI(output)>>

\* __init__: the instance built from one restaurants row.
NewAgent(config, tools) ==
    [config |-> config, tools |-> tools, buffer |-> <<>>]

\* _create_agent: the system prompt is formatted from restaurant_config.
SystemPrompt(config) == <<"system", config>>

(***************************************************************************)
(* AgentExecutor(max_iterations=5, early_stopping_method="generate")       *)
(***************************************************************************)
NoOutcome == [kind |-> "none", value |-> None]
Text(a) == [kind |-> "text", value |-> a]
Error(e) == [kind |-> "error", value |-> e]

IdleRun ==
    [status |-> "idle", caller |-> 0, inst |-> 0, input |-> None,
     chat_history |-> <<>>, scratch |-> <<>>, iterations |-> 0,
     pending |-> <<>>, stepOut |-> <<>>, outcome |-> NoOutcome]

Final(a) == [final |-> TRUE, text |-> a, calls |-> <<>>]
Calls(cs) == [final |-> FALSE, text |-> "", calls |-> cs]
Call(n, arg) == [name |-> n, arg |-> arg]

\* The prompt of one model call: system message, chat_history, the human
\* input, agent_scratchpad (restaurant_agent.py:87-92).
Prompt(r) ==
    [sys |-> SystemPrompt(inst[r.inst].config), history |-> r.chat_history,
     input |-> r.input, scratch |-> r.scratch]

Event(kind, name, data) == [kind |-> kind, name |-> name, data |-> data]

\* agent.invoke({"input": m}): prep_inputs loads the memory variables.
Invoke(i, m, caller) ==
    /\ run.status = "idle"
    /\ run' = [IdleRun EXCEPT !.status = "planning", !.caller = caller,
                              !.inst = i, !.input = m,
                              !.chat_history = LoadMemory(inst[i].buffer)]
    /\ trace' = <<>>

\* The result dict of invoke: the inputs (with the loaded chat_history) and
\* the output.
Response(r, a) ==
    [input |-> r.input, chat_history |-> r.chat_history, output |-> a]

\* The customer_id of the request in slot q (None for a direct caller).
Customer(q) == IF q = 0 THEN None ELSE req[q].cid

\* prep_outputs: an answer is saved to the memory before invoke returns.
Finish(a) ==
    /\ run' = [run EXCEPT !.status = "finished", !.outcome = Text(a),
                          !.pending = <<>>, !.stepOut = <<>>]
    /\ inst' = [inst EXCEPT ![run.inst].buffer =
                    SaveContext(inst[run.inst].buffer, run.input, a)]
    /\ completed' = [completed EXCEPT ![run.inst] =
                        Append(@, [input |-> run.input, output |-> a,
                                   customer |-> Customer(run.caller)])]

\* An exception leaves invoke: nothing is saved.
Fail(e) ==
    /\ run' = [run EXCEPT !.status = "finished", !.outcome = Error(e),
                          !.pending = <<>>, !.stepOut = <<>>]
    /\ UNCHANGED <<inst, completed>>

\* One pass of the loop head and the plan step: while iterations <
\* max_iterations, one model call; a plain answer ends the loop, tool calls
\* are queued for execution.
Plan(Replies) ==
    /\ run.status = "planning"
    /\ run.iterations < MaxIterations
    /\ \E reply \in Replies :
         IF reply.final
         THEN /\ Finish(reply.text)
              /\ trace' = trace \o <<Event("model", "", Prompt(run)),
                                     Event("reply", "final", reply.text),
                                     Event("return", "", reply.text)>>
         ELSE /\ run' = [run EXCEPT !.status = "acting",
                                    !.pending = reply.calls, !.stepOut = <<>>]
              /\ trace' = trace \o <<Event("model", "", Prompt(run)),
                                     Event("reply", "tools", reply.calls)>>
              /\ UNCHANGED <<inst, completed>>
    /\ UNCHANGED <<klass, rows, agents, cache, log, req, served, last, gen, health>>

\* A loop that counts the iteration and forgets what its tools returned.
EndStepDropsResults(r, out) ==
    [r EXCEPT !.status = "planning", !.iterations = r.iterations + 1,
              !.pending = <<>>, !.stepOut = <<>>]

\* intermediate_steps.extend(next_step_output); iterations += 1
EndStep(r, out) ==
    [r EXCEPT !.status = "planning", !.scratch = r.scratch \o out,
              !.iterations = r.iterations + 1, !.pending = <<>>,
              !.stepOut = <<>>]

\* The next queued tool call of this iteration is executed; after the last
\* one the observations join the scratchpad.
RunTool ==
    /\ run.status = "acting"
    /\ run.pending # <<>>
    /\ LET c == Head(run.pending)
           outs == IF c.name \in inst[run.inst].tools
                   THEN ToolOutcomes(c.name, c.arg)
                   ELSE {InvalidTool(c.name)}
       IN \E o \in outs :
            IF o.raised
            THEN /\ Fail(o.obs)
                 /\ trace' = trace \o <<Event("tool", c.name, o.obs),
                                        Event("raise", c.name, o.obs)>>
            ELSE /\ LET out == Append(run.stepOut,
                                      [tool |-> c.name, obs |-> o.obs])
                    IN run' = IF Len(run.pending) = 1
                              THEN EndStep(run, out)
                              ELSE [run EXCEPT !.pending = Tail(run.pending),
                                               !.stepOut = out]
                 /\ trace' = Append(trace, Event("tool", c.name, o.obs))
                 /\ UNCHANGED <<inst, completed>>
    /\ UNCHANGED <<klass, rows, agents, cache, log, req, served, last, gen, health>>

\* The loop ends at the cap: return_stopped_response("generate"). The
\* tool-calling agent supports only "force" and raises ValueError; where
\* "generate" is supported it is one last model call whose text is the answer.
Stopped(Answers) ==
    /\ run.status = "planning"
    /\ run.iterations >= MaxIterations
    /\ \/ /\ Fail("ValueError")
          /\ trace' = Append(trace, Event("raise", "early_stopping", "ValueError"))
       \/ \E a \in Answers :
            /\ Finish(a)
            /\ trace' = trace \o <<Event("model", "stopped", Prompt(run)),
                                   Event("reply", "final", a),
                                   Event("return", "stopped", a)>>
    /\ UNCHANGED <<klass, rows, agents, cache, log, req, served, last, gen, health>>

(***************************************************************************)
(* Direct use of one agent                                                 *)
(***************************************************************************)
AgentMsgs == {"m1"}
AgentAnswers == {"a1"}

\* What the model may reply in SpecAgent: a plain answer, one call of any
\* tool with a well-formed input, of a tool with a malformed input, of a name
\* that is no tool, or two calls at once.
AgentReplies ==
    {Final(a) : a \in AgentAnswers}
    \cup {Calls(<<Call(n, "ok")>>) : n \in (ToolNames \ {"get_menu_info"}) \cup {"no_such_tool"}}
    \cup {Calls(<<Call(n, "bad")>>) :
            n \in {"check_availability", "make_reservation", "process_order"}}
    \cup {Calls(<<Call("get_menu_info", "match")>>),
          Calls(<<Call("get_menu_info", "match"), Call("check_hours", "ok")>>),
          Calls(<<Call("get_wait_time", "ok"), Call("make_reservation", "bad")>>)}

(***************************************************************************)
(* main.py: the state of the service                                       *)
(***************************************************************************)
Rids == {"A", "B", "Z"}
Msgs == {"m1", "m2", "m3"}
Customers == {"c1", "c2"}
Channels == {"web"}
\* Two requests at a time are in flight.
Slots == {1, 2}

\* hash(request.message): many strings share one hash value; here m1 and m3.
Hash(m) == CASE m = "m1" -> "h1" [] m = "m2" -> "h2" [] m = "m3" -> "h1"

\* A key that leaves the restaurant out.
CacheKeyNoRestaurant(rid, m) == <<"response", "A", Hash(m)>>

\* A key that leaves the message out.
CacheKeyNoMessage(rid, m) == <<"response", rid, "h1">>

\* f"response:{request.restaurant_id}:{hash(request.message)}"
CacheKey(rid, m) == <<"response", rid, Hash(m)>>

CacheKeys == {CacheKey(r, m) : r \in Rids, m \in Msgs}
NoEntry == [value |-> <<>>, ttl |-> 0]
Entry(v, ttl) == [value |-> v, ttl |-> ttl]

\* The conversations row of one exchange: ON CONFLICT on these three columns.
LogKey(rid, cid, ch) == <<rid, cid, ch>>
LogKeys == {LogKey(r, c, ch) : r \in Rids, c \in Customers, ch \in Channels}

\* The restaurants row of one id: its configuration columns.
RowOf(rid) == <<"row", rid>>

\* SELECT * FROM restaurants WHERE id = $1: the row, or None.
FetchRow(table, rid) == IF rid \in table THEN RowOf(rid) ELSE None

\* A handler that never takes the 404 branch.
NotFoundNever(row) == FALSE

\* if not restaurant: raise HTTPException(404)
NotFound(row) == row = None

\* json.dumps(response): the chat_history of the result holds message
\* objects (return_messages=True), which json cannot serialise; an empty
\* list, and the two strings, it can.
JsonDumps(resp) ==
    IF resp.chat_history = <<>>
    THEN [ok |-> TRUE, text |-> <<"json", resp>>]
    ELSE [ok |-> FALSE, text |-> "TypeError"]

\* json.loads(cached)
JsonLoads(text) == text[2]

NewReq ==
    [pc |-> "new", rid |-> None, msg |-> None, cid |-> None, channel |-> None,
     agent |-> 0, response |-> None, queried |-> FALSE, invoked |-> 0]

NoResponse == [status |-> 0, body |-> None, via |-> None]

NoGen == [pc |-> "idle", intent |-> None, keys |-> {}, tone |-> None,
          calls |-> <<>>, reply |-> None, result |-> NoOutcome]

\* The three services of the health report, in the order they are probed.
Services == <<"redis", "database", "llm">>

\* health_status as initialised at lines 140-148 (the timestamp is left out).
NewReport ==
    [status |-> "healthy",
     services |-> [s \in {"redis", "database", "llm"} |->
                      [status |-> "unknown", details |-> ""]]]

\* GET /health before its first call.
NoHealth ==
    [pc |-> "idle", checks |-> 0, report |-> NewReport, overall_healthy |-> TRUE,
     probes |-> <<>>, returned |-> <<>>]

\* lifespan: app.state.agents = {}; the cache and the log start empty.
InitService ==
    /\ rows = {"A", "B"}
    /\ agents = [r \in Rids |-> 0]
    /\ cache = [k \in CacheKeys |-> NoEntry]
    /\ log = [k \in LogKeys |-> <<>>]
    /\ req = [q \in Slots |-> NewReq]
    /\ served = 0
    /\ last = NoResponse
    /\ health = NoHealth

\* One agent, constructed from restaurant A's row, with the class completed
\* by the two lookups the specification lists.
InitAgent ==
    /\ klass = ClassMethods \cup SpecStubs
    /\ inst = <<NewAgent(RowOf("A"), CreateTools(klass).tools)>>
    /\ completed = <<(<<>>)>>
    /\ run = IdleRun
    /\ trace = <<>>
    /\ gen = NoGen
    /\ InitService

AgentInvoke(ms, maxInv) ==
    /\ Len(completed[1]) < maxInv
    /\ \E m \in ms : Invoke(1, m, 0)
    /\ UNCHANGED <<klass, rows, agents, inst, cache, log, req, served, last,
                   completed, gen, health>>

\* The caller takes the result (or the exception) of invoke.
AgentCollect ==
    /\ run.status = "finished"
    /\ run.caller = 0
    /\ run' = IdleRun
    /\ trace' = <<>>
    /\ UNCHANGED <<klass, rows, agents, inst, cache, log, req, served, last,
                   completed, gen, health>>

NextAgent ==
    \/ AgentInvoke(AgentMsgs, MaxInvocations)
    \/ Plan(AgentReplies)
    \/ RunTool
    \/ Stopped(AgentAnswers)
    \/ AgentCollect

SpecAgent == InitAgent /\ [][NextAgent]_vars

\* The same agent driven through many turns: the model answers at once or
\* looks up the menu first.
MemoryMsgs == {"m1", "m2"}
MemoryReplies ==
    {Final(a) : a \in AgentAnswers}
    \cup {Calls(<<Call("get_menu_info", "match")>>)}

NextMemory ==
    \/ AgentInvoke(MemoryMsgs, MaxTurns)
    \/ Plan(MemoryReplies)
    \/ RunTool
    \/ Stopped(AgentAnswers)
    \/ AgentCollect

SpecMemory == InitAgent /\ [][NextMemory]_vars

(***************************************************************************)
(* main.py: process_message, one action per stretch between two awaits     *)
(***************************************************************************)
\* The handler returns (or raises): the response goes to the caller and the
\* request is over.
Return(q, status, body, via) ==
    /\ req' = [req EXCEPT ![q] = NewReq]
    /\ last' = [status |-> status, body |-> body, via |-> via]

\* Lines 79-81 and 94-98. The request arrives; without an agent for the
\* restaurant the handler awaits the restaurants query, with one it takes it
\* from the registry and awaits redis.get.
Arrive(q) ==
    /\ run.status = "idle"
    /\ req[q].pc = "new"
    /\ served < MaxRequests
    /\ served' = served + 1
    /\ \E rid \in Rids, m \in Msgs, cid \in Customers, ch \in Channels :
         LET r == [req[q] EXCEPT !.rid = rid, !.msg = m, !.cid = cid,
                                 !.channel = ch]
         IN req' = [req EXCEPT ![q] =
                IF agents[rid] = 0
                THEN [r EXCEPT !.pc = "fetchrow"]
                ELSE [r EXCEPT !.pc = "get", !.agent = agents[rid]]]
    /\ UNCHANGED <<klass, rows, agents, inst, cache, log, last, run, trace,
                   completed, gen, health>>

\* Lines 82-98. The query returns: 404 without a row; otherwise the agent is
\* constructed (which raises when _create_tools does), stored in the
\* registry under the restaurant id, read back, and redis.get is awaited.
RowFetched(q) ==
    /\ run.status = "idle"
    /\ req[q].pc = "fetchrow"
    /\ LET row == FetchRow(rows, req[q].rid)
           built == CreateTools(klass)
           new == Len(inst) + 1
       IN IF NotFound(row)
          THEN /\ Return(q, 404, "Restaurant not found", None)
               /\ UNCHANGED <<agents, inst, completed>>
          ELSE IF ~built.ok
          THEN /\ Return(q, 500, "AttributeError", None)
               /\ UNCHANGED <<agents, inst, completed>>
          ELSE /\ inst' = Append(inst, NewAgent(row, built.tools))
               /\ completed' = Append(completed, <<>>)
               /\ agents' = [agents EXCEPT ![req[q].rid] = new]
               /\ req' = [req EXCEPT ![q].pc = "get", ![q].agent = new,
                                      ![q].queried = TRUE]
               /\ UNCHANGED last
    /\ UNCHANGED <<klass, rows, cache, log, served, run, trace, gen, health>>

\* Lines 98-104. redis.get returns: a hit is returned as parsed; on a miss
\* the agent is invoked, synchronously.
CacheAnswered(q) ==
    /\ run.status = "idle"
    /\ req[q].pc = "get"
    /\ LET cached == cache[CacheKey(req[q].rid, req[q].msg)]
       IN IF cached # NoEntry
          THEN /\ Return(q, 200, JsonLoads(cached.value), "cache")
               /\ UNCHANGED <<run, trace>>
          ELSE /\ Invoke(req[q].agent, req[q].msg, q)
               /\ req' = [req EXCEPT ![q].pc = "invoke",
                                      ![q].invoked = req[q].invoked + 1]
               /\ UNCHANGED last
    /\ UNCHANGED <<klass, rows, agents, inst, cache, log, served, completed, gen, health>>

\* Lines 104-111. invoke returns or raises; the response is serialised and
\* redis.setex is awaited.
Invoked(q) ==
    /\ run.status = "finished"
    /\ run.caller = q
    /\ req[q].pc = "invoke"
    /\ run' = IdleRun
    /\ trace' = <<>>
    /\ IF run.outcome.kind = "error"
       THEN Return(q, 500, run.outcome.value, None)
       ELSE LET response == Response(run, run.outcome.value)
                dumped == JsonDumps(response)
            IN IF dumped.ok
               THEN /\ req' = [req EXCEPT ![q].pc = "setex",
                                           ![q].response = response]
                    /\ UNCHANGED last
               ELSE Return(q, 500, dumped.text, None)
    /\ UNCHANGED <<klass, rows, agents, inst, cache, log, served, completed, gen, health>>

\* Lines 107-121. setex has stored the serialised response for one hour;
\* log_conversation is awaited.
Stored(q) ==
    /\ run.status = "idle"
    /\ req[q].pc = "setex"
    /\ cache' = [cache EXCEPT ![CacheKey(req[q].rid, req[q].msg)] =
                    Entry(JsonDumps(req[q].response).text, CacheTTL)]
    /\ req' = [req EXCEPT ![q].pc = "log"]
    /\ UNCHANGED <<klass, rows, agents, inst, log, served, last, run, trace,
                   completed, gen, health>>

\* The two messages log_conversation appends to the row's messages.
Exchange(m, out) ==
    <<[role |-> "user", content |-> m], [role |-> "assistant", content |-> out]>>

\* Lines 114-123 and 223-244. The upsert has appended the exchange; the
\* response is returned.
Logged(q) ==
    /\ run.status = "idle"
    /\ req[q].pc = "log"
    /\ log' = [log EXCEPT ![LogKey(req[q].rid, req[q].cid, req[q].channel)] =
                  @ \o Exchange(req[q].msg, req[q].response.output)]
    /\ Return(q, 200, req[q].response, "agent")
    /\ UNCHANGED <<klass, rows, agents, inst, cache, served, run, trace,
                   completed, gen, health>>

\* Redis drops an entry whose TTL has run out.
Expire(k) ==
    /\ run.status = "idle"
    /\ cache[k] # NoEntry
    /\ cache' = [cache EXCEPT ![k] = NoEntry]
    /\ UNCHANGED <<klass, rows, agents, inst, log, req, served, last, run, trace,
                   completed, gen, health>>

\* What the model replies while the service runs: an answer, or an
\* availability check with a date it made up (the loop at length is the
\* subject of SpecAgent).
ServiceAnswers == {"a1"}
ServiceReplies ==
    {Final(a) : a \in ServiceAnswers}
    \cup {Calls(<<Call("check_availability", "bad")>>)}

InitAsWritten ==
    /\ klass = ClassMethods
    /\ inst = <<>>
    /\ completed = <<>>
    /\ run = IdleRun
    /\ trace = <<>>
    /\ gen = NoGen
    /\ InitService

\* The service with the class completed by the two lookups of the
\* specification, so that an agent can be constructed.
InitCompleted ==
    /\ klass = ClassMethods \cup SpecStubs
    /\ inst = <<>>
    /\ completed = <<>>
    /\ run = IdleRun
    /\ trace = <<>>
    /\ gen = NoGen
    /\ InitService

\* With the class as written no request gets past the construction.
Next ==
    \/ \E q \in Slots : Arrive(q)
    \/ \E q \in Slots : RowFetched(q)

Spec == InitAsWritten /\ [][Next]_vars

NextService ==
    \/ \E q \in Slots : Arrive(q)
    \/ \E q \in Slots : RowFetched(q)
    \/ \E q \in Slots : CacheAnswered(q)
    \/ Plan(ServiceReplies)
    \/ RunTool
    \/ \E q \in Slots : Invoked(q)
    \/ \E q \in Slots : Stored(q)
    \/ \E q \in Slots : Logged(q)
    \/ \E k \in CacheKeys : Expire(k)

SpecService == InitCompleted /\ [][NextService]_vars

(***************************************************************************)
(* response_generator.py: RestaurantResponseGenerator.generate_response    *)
(***************************************************************************)
\* The keys of _load_templates.
TemplateNames ==
    {"reservation_confirm", "reservation_unavailable", "menu_response",
     "order_confirmation", "review_response_positive",
     "review_response_negative"}

\* The {slots} of each template's human message.
TemplateSlots(t) ==
    CASE t = "reservation_confirm" -> {"name", "size", "date", "time"}
      [] t = "reservation_unavailable" -> {"size", "time", "alternatives"}
      [] t = "menu_response" -> {"query", "items"}
      [] t = "order_confirmation" -> {"order_details"}
      [] t = "review_response_positive" -> {"review_text", "rating"}
      [] t = "review_response_negative" -> {"review_text", "rating", "issues"}

\* A lookup that answers every review with the positive-review template.
SelectTemplateMixedReviews(intent) ==
    IF intent = "review_response_negative" THEN "review_response_positive"
    ELSE IF intent \in TemplateNames THEN intent ELSE None

\* self.templates.get(intent)
SelectTemplate(intent) ==
    IF intent \in TemplateNames THEN intent ELSE None

\* The value the context holds under key k.
Val(k) == <<"value", k>>

\* template.format_messages(**context): every slot takes the context's value.
FormatMessages(t, keys) ==
    [template |-> t, filled |-> [k \in TemplateSlots(t) |-> Val(k)]]

\* generic_prompt.format_messages(query=context.get('query', ''))
GenericMessages(keys) ==
    [template |-> "generic",
     filled |-> [k \in {"query"} |-> IF "query" \in keys THEN Val("query") ELSE ""]]

GenIntents == TemplateNames \cup {"general_inquiry", "hours_inquiry"}
GenTones == {"professional", "casual", "formal"}
GenTexts == {"t1", "t2"}

\* The contexts a caller passes: the slots of some template, those slots
\* with one missing, the query alone, nothing.
GenContexts ==
    {TemplateSlots(t) : t \in TemplateNames}
    \cup UNION {{TemplateSlots(t) \ {k} : k \in TemplateSlots(t)} : t \in TemplateNames}
    \cup {{"query"}, {}}

InitGen ==
    /\ klass = ClassMethods
    /\ inst = <<>>
    /\ completed = <<>>
    /\ run = IdleRun
    /\ trace = <<>>
    /\ InitService
    /\ \E i \in GenIntents, c \in GenContexts, t \in GenTones :
         gen = [pc |-> "called", intent |-> i, keys |-> c, tone |-> t,
                calls |-> <<>>, reply |-> None, result |-> NoOutcome]

\* generate_response(intent, context, tone), lines 51-84.
Generate ==
    /\ gen.pc = "called"
    /\ LET template == SelectTemplate(gen.intent)
           keys == IF gen.tone \in {"casual", "formal"}
                   THEN gen.keys \cup {"tone_instruction"} ELSE gen.keys
       IN IF template = None
          THEN \E text \in GenTexts :
                 gen' = [gen EXCEPT !.pc = "done",
                                    !.calls = <<GenericMessages(gen.keys)>>,
                                    !.reply = text, !.result = Text(text)]
          ELSE IF ~(TemplateSlots(template) \subseteq keys)
          THEN gen' = [gen EXCEPT !.pc = "done", !.keys = keys,
                                  !.result = Error("KeyError")]
          ELSE \E text \in GenTexts :
                 gen' = [gen EXCEPT !.pc = "done", !.keys = keys,
                                    !.calls = <<FormatMessages(template, keys)>>,
                                    !.reply = text, !.result = Text(text)]
    /\ UNCHANGED <<klass, rows, agents, inst, cache, log, req, served, last, run,
                   trace, completed, health>>

NextGen == Generate

SpecGen == InitGen /\ [][NextGen]_vars

(***************************************************************************)
(* GET /health (main.py:137-221)                                           *)
(***************************************************************************)
\* What each probe can do: succeed, or raise at one of its calls.
RedisOutcomes == {"ok", "ConnectionError", "TimeoutError"}
DatabaseOutcomes == {"ok", "acquire: TooManyConnections", "fetchval: PostgresError"}
LLMOutcomes == {"ok", "import: ImportError", "constructor: ValidationError",
                "predict: APIError"}

\* The success branch of a probe's try block: the service's entry.
Healthy(h, name, details) ==
    [h EXCEPT !.report.services[name] =
                  [status |-> "healthy", details |-> details],
              !.probes = Append(@, [service |-> name, ok |-> TRUE])]

\* A handler that records the failure and leaves overall_healthy alone.
UnhealthyOverallKept(h, name, prefix, e) ==
    [h EXCEPT !.report.services[name] =
                  [status |-> "unhealthy", details |-> <<prefix, e>>],
              !.probes = Append(@, [service |-> name, ok |-> FALSE])]

\* The except branch of a probe's try block: overall_healthy = False and the
\* service's entry.
Unhealthy(h, name, prefix, e) ==
    [h EXCEPT !.overall_healthy = FALSE,
              !.report.services[name] =
                  [status |-> "unhealthy", details |-> <<prefix, e>>],
              !.probes = Append(@, [service |-> name, ok |-> FALSE])]

\* Lines 140-150: the handler is called and initialises its report.
HealthCalled ==
    /\ health.pc \in {"idle", "returned"}
    /\ health.checks < MaxChecks
    /\ health' = [NoHealth EXCEPT !.pc = "redis", !.checks = health.checks + 1]
    /\ UNCHANGED <<klass, rows, agents, inst, cache, log, req, served, last, run,
                   trace, completed, gen>>

\* Lines 153-169: await app.state.redis.ping().
ProbeRedis ==
    /\ health.pc = "redis"
    /\ \E o \in RedisOutcomes :
         health' = [(IF o = "ok"
                     THEN Healthy(health, "redis", "Connected successfully")
                     ELSE Unhealthy(health, "redis", "Connection failed", o))
                    EXCEPT !.pc = "database"]
    /\ UNCHANGED <<klass, rows, agents, inst, cache, log, req, served, last, run,
                   trace, completed, gen>>

\* Lines 172-189: acquire a connection and await conn.fetchval("SELECT 1").
ProbeDatabase ==
    /\ health.pc = "database"
    /\ \E o \in DatabaseOutcomes :
         health' = [(IF o = "ok"
                     THEN Healthy(health, "database", "Connected successfully")
                     ELSE Unhealthy(health, "database", "Connection failed", o))
                    EXCEPT !.pc = "llm"]
    /\ UNCHANGED <<klass, rows, agents, inst, cache, log, req, served, last, run,
                   trace, completed, gen>>

\* Lines 192-216: import, construct the model client, predict("Hello").
ProbeLLM ==
    /\ health.pc = "llm"
    /\ \E o \in LLMOutcomes :
         health' = [(IF o = "ok"
                     THEN Healthy(health, "llm", "API call successful")
                     ELSE Unhealthy(health, "llm", "API call failed", o))
                    EXCEPT !.pc = "status"]
    /\ UNCHANGED <<klass, rows, agents, inst, cache, log, req, served, last, run,
                   trace, completed, gen>>

\* Lines 219-221: the overall status is set and the report returned.
HealthReturn ==
    /\ health.pc = "status"
    /\ LET report == [health.report EXCEPT !.status =
                         IF health.overall_healthy THEN "healthy" ELSE "unhealthy"]
       IN health' = [health EXCEPT !.pc = "returned", !.report = report,
                                   !.returned = <<report>>]
    /\ UNCHANGED <<klass, rows, agents, inst, cache, log, req, served, last, run,
                   trace, completed, gen>>

NextHealth ==
    \/ HealthCalled
    \/ ProbeRedis
    \/ ProbeDatabase
    \/ ProbeLLM
    \/ HealthReturn

SpecHealth == InitAsWritten /\ [][NextHealth]_vars

(***************************************************************************)
(* Properties of the agent loop                                            *)
(***************************************************************************)
RECURSIVE Flatten(_)
\* The messages of a list of turns, oldest first.
Flatten(turns) ==
    IF turns = <<>> THEN <<>>
    ELSE <<Human(Head(turns).input), AI(Head(turns).output)>> \o Flatten(Tail(turns))

\* The observations of the tools executed among the events es, in order.
ToolSteps(es) ==
    LET ts == SelectSeq(es, LAMBDA e : e.kind = "tool")
    IN [j \in 1..Len(ts) |-> [tool |-> ts[j].name, obs |-> ts[j].data]]

\* The loop never starts a sixth iteration.
IterationsBounded ==
    /\ run.iterations <= MaxIterations
    /\ Len(SelectSeq(trace, LAMBDA e : e.kind = "reply" /\ e.name = "tools"))
          <= MaxIterations

Returns(q) == req[q].pc # "new" /\ req'[q].pc = "new"

\* The exchange e (two messages) stands in the messages l.
InLog(l, e) ==
    \E j \in 1..(Len(l) - 1) : l[j] = e[1] /\ l[j + 1] = e[2]

\* C3: every tool the agent lists has an implementation: an agent is built
\* with the six tools, no request fails for a missing one, and nothing but
\* the six is ever run as a tool.
C3_SixToolsImplemented ==
    /\ last.status = 500 => last.body # "AttributeError"
    /\ \A i \in 1..Len(inst) : inst[i].tools = ToolNames
    /\ \A j \in 1..Len(trace) :
          trace[j].kind = "tool" =>
              \/ trace[j].name \in ToolNames
              \/ trace[j].data = <<"invalid_tool", trace[j].name>>

Acts(q) ==
    \/ req'[q] # req[q]
    \/ run' # run /\ (run.caller = q \/ run'.caller = q)

\* The restaurant of the request in slot q during this step.
ActingFor(q) == IF req[q].pc = "new" THEN req'[q].rid ELSE req[q].rid

Produced(rid) ==
    UNION {{completed[i][j] : j \in 1..Len(completed[i])} :
             i \in {x \in 1..Len(inst) : inst[x].config = RowOf(rid)}}

\* What redis.get answers request q in this step.
Cached(q) == cache[CacheKey(req[q].rid, req[q].msg)]

\* C8, the hit and the miss: a hit is returned as stored, with the agent not
\* invoked and histories and cache unchanged; a miss invokes the agent once,
\* and a response of the agent is returned only after it was stored under
\* the key with the one-hour TTL.
HitAndMiss ==
    \A q \in Slots :
        /\ (req[q].pc = "get" /\ req'[q] # req[q] /\ Cached(q) # NoEntry) =>
              /\ Returns(q)
              /\ last' = [status |-> 200, body |-> Cached(q).value[2], via |-> "cache"]
              /\ UNCHANGED <<inst, completed, cache, run>>
        /\ (req[q].pc = "get" /\ req'[q] # req[q] /\ Cached(q) = NoEntry) =>
              /\ req'[q].pc = "invoke"
              /\ req'[q].invoked = 1
              /\ run'.status = "planning" /\ run'.caller = q
              /\ run'.inst = req[q].agent /\ run'.input = req[q].msg
        /\ (req[q].pc = "setex" /\ req'[q] # req[q]) =>
              /\ req'[q].pc = "log"
              /\ LET k == <<"response", req[q].rid, Hash(req[q].msg)>>
                 IN /\ k \in DOMAIN cache'
                    /\ cache'[k] =
                          [value |-> <<"json", req[q].response>>, ttl |-> 3600]
        /\ (Returns(q) /\ last'.via = "agent") =>
              /\ req[q].pc = "log"
              /\ req[q].invoked = 1
              /\ last'.body = req[q].response
              /\ \E t \in Produced(req[q].rid) :
                    /\ t.input = req[q].msg /\ last'.body.input = t.input
                    /\ last'.body.output = t.output

C9_NotFoundHasNoEffect ==
    [][\A q \in Slots :
          (req'[q] # req[q] /\ ActingFor(q) \notin rows /\ agents[ActingFor(q)] = 0) =>
              /\ UNCHANGED <<agents, inst, completed, cache, log, run, trace>>
              /\ req[q].pc \in {"new", "fetchrow"}
              /\ req[q].pc = "new" => req'[q].pc = "fetchrow"
              /\ req[q].pc = "fetchrow" =>
                    /\ Returns(q)
                    /\ last' = [status |-> 404, body |-> "Restaurant not found",
                                via |-> None]]_vars

\* C9 witness: a 404 was returned after another restaurant got its agent
\* and a cached response.
C9_Witness ==
    /\ last.status = 404
    /\ \E r \in Rids : agents[r] # 0
    /\ \E k \in CacheKeys : cache[k] # NoEntry

TurnsOf(ts, cid) == SelectSeq(ts, LAMBDA t : t.customer = cid)

OwnTemplateCall ==
    /\ Len(gen.calls) = 1
    /\ gen.calls[1].template = gen.intent
    /\ DOMAIN gen.calls[1].filled = TemplateSlots(gen.intent)
    /\ \A k \in TemplateSlots(gen.intent) : gen.calls[1].filled[k] = <<"value", k>>
    /\ gen.result = Text(gen.reply)

\* The one model call of generate_response for any other intent.
GenericCall ==
    /\ Len(gen.calls) = 1
    /\ gen.calls[1].template = "generic"
    /\ gen.calls[1].filled =
          [k \in {"query"} |->
              IF "query" \in gen.keys THEN <<"value", "query">> ELSE ""]
    /\ gen.result = Text(gen.reply)

\* C6 as claimed: for each of the six template names one model call from
\* that intent's template filled from the context, for every other name one
\* from the generic template with the query; the model's text is returned.
C6_TemplateByIntent ==
    gen.pc = "done" =>
        IF gen.intent \in TemplateNames THEN OwnTemplateCall ELSE GenericCall

\* C6 as amended: as claimed when the context holds every slot of the
\* intent's template; when a slot is missing the call raises KeyError and
\* no model call is made.
C6_TemplateByIntentGivenSlots ==
    gen.pc = "done" =>
        IF gen.intent \notin TemplateNames THEN GenericCall
        ELSE IF TemplateSlots(gen.intent) \subseteq gen.keys THEN OwnTemplateCall
        ELSE gen.calls = <<>> /\ gen.result = Error("KeyError")

\* C6 witness: the negative-review template filled and sent, the model's
\* text returned.
C6_Witness ==
    /\ gen.pc = "done"
    /\ gen.intent = "review_response_negative"
    /\ Len(gen.calls) = 1
    /\ gen.result.kind = "text"

(***************************************************************************)
(* Properties of the health endpoint                                       *)
(***************************************************************************)
\* The status the report gives service s.
Reported(s) == health.returned[1].services[s].status

\* C12: /health always returns a report: the three probes were all run,
\* each service is reported healthy exactly when its own probe succeeded and
\* unhealthy otherwise, never unknown, and the overall status is healthy
\* exactly when all three services are.
C12_HealthReport ==
    /\ health.pc = "status" => Len(health.probes) = 3
    /\ health.pc = "returned" =>
          /\ Len(health.returned) = 1
          /\ [j \in 1..Len(health.probes) |-> health.probes[j].service] = Services
          /\ \A j \in 1..3 :
                Reported(Services[j]) =
                    IF health.probes[j].ok THEN "healthy" ELSE "unhealthy"
          /\ health.returned[1].status \in {"healthy", "unhealthy"}
          /\ health.returned[1].status = "healthy" <=>
                \A j \in 1..3 : Reported(Services[j]) = "healthy"

\* C12 witness: a report returned after the database probe alone failed, on
\* a second call of the endpoint.
C12_Witness ==
    /\ health.pc = "returned"
    /\ health.checks = 2
    /\ health.probes[1].ok /\ ~health.probes[2].ok /\ health.probes[3].ok
    /\ health.returned[1].status = "unhealthy"
    /\ Reported("redis") = "healthy" /\ Reported("llm") = "healthy"
====
